---- MODULE Spec2Model ----
(***************************************************************************)
(* The four dictionaries of hashes.hpp (naive_dict, chain_dict, lp_dict,   *)
(* cuckoo_dict) with their hash functions, driven through the              *)
(* abstract_dict contract (search, set) by an arbitrary caller.            *)
(***************************************************************************)
EXTENDS Integers, Sequences, FiniteSets, TLC

\* ------------------------------------------------------------------ bounds
\* Largest capacity handed to a constructor (benchmark's n).
MaxN == 2
\* Keys are 0..MaxKey (all below 256: one byte of the tabular hash varies).
MaxKey == 2
\* Values are 1..MaxVal.
MaxVal == 2
\* Deepest nesting of cuckoo_dict::rehash the model follows.
MaxDepth == 2
\* The caller calls set on a key it has set before at most this many times.
MaxResets == 1

LARGE_PRIME == 2147483647

Keys == 0..MaxKey
Vals == 1..MaxVal
Structures == {"naive", "chain", "lp", "cuckoo"}

\* Outcomes of rand() % (LARGE_PRIME - 1): the two ends of its range.
RandVals == {0, LARGE_PRIME - 2}

\* ------------------------------------------------------- 32-bit arithmetic
\* A uint32_t is a pair <<hi, lo>> of 16-bit halves (TLC's integers are
\* 32-bit signed, so 2^32 itself is not a TLC number).
Half == 256 * 256

FromInt(x) == <<x \div Half, x % Half>>

\* (x * y) mod 2^16 for 16-bit x, y, without leaving 31 bits.
MulMod16(x, y) == ((x % 256) * y + 256 * (((x \div 256) * y) % 256)) % Half

\* (x * y) div 2^16 for 16-bit x, y, without leaving 31 bits.
MulDiv16(x, y) ==
  LET x0 == x % 256
      x1 == x \div 256
      p0 == x0 * y
      p1 == x1 * y
  IN  ((p0 + 256 * (p1 % 256)) \div Half) + (p1 \div 256)

\* a + b in uint32_t (wraps modulo 2^32).
Add32(a, b) ==
  LET lo == a[2] + b[2]
  IN  <<(a[1] + b[1] + (lo \div Half)) % Half, lo % Half>>

\* a * b in uint32_t (wraps modulo 2^32).
Mul32(a, b) ==
  <<(MulDiv16(a[2], b[2]) + MulMod16(a[1], b[2]) + MulMod16(a[2], b[1])) % Half,
    MulMod16(a[2], b[2])>>

\* u % m for a uint32_t u and a small positive m.
Mod32(u, m) == ((u[1] % m) * (Half % m) + u[2]) % m

RECURSIVE Xor(_, _)
\* Bitwise exclusive or of two naturals.
Xor(a, b) ==
  IF a = 0 THEN b
  ELSE IF b = 0 THEN a
  ELSE ((a + b) % 2) + 2 * Xor(a \div 2, b \div 2)

\* ---------------------------------------------------------- hash functions
\* poly2_hash_func(): a0, a1 drawn by rand().
Poly2Funcs == [a0 : RandVals, a1 : RandVals]

\* poly2_hash_func::hash: a0 + key * a1 in uint32_t.
Poly2Hash(f, k) == Add32(FromInt(f.a0), Mul32(FromInt(k), FromInt(f.a1)))

\* poly5_hash_func(): a[0..4] drawn by rand().
Poly5Funcs == [0..4 -> RandVals]

\* poly5_hash_func::hash: Horner form in uint32_t.
Poly5Hash(a, k) ==
  LET x == FromInt(k)
      h4 == Mul32(x, FromInt(a[4]))
      h3 == Mul32(x, Add32(FromInt(a[3]), h4))
      h2 == Mul32(x, Add32(FromInt(a[2]), h3))
      h1 == Mul32(x, Add32(FromInt(a[1]), h2))
  IN  Add32(FromInt(a[0]), h1)

\* The bytes a key of Keys can show: the cells of t[i] the model keeps.
ByteVals == 0..MaxKey

\* The draws of rand() kept for a table of n slots: one word of RandVals
\* for each residue modulo n.
Words(n) == {w \in RandVals : \A u \in RandVals : u % n = w % n => w <= u}

\* tabular_hash_func(): t[i][j] drawn by rand(), for a dictionary of n slots
\* per table.  Keys are below 256, so rows 1..3 are read at byte 0 only and
\* XOR one common word into every hash, and XORing one word of RandVals into
\* every cell of row 0 only renames the two hash values.  The draws of rows
\* 1..3 and of t[0][0] are therefore kept at 0; the other cells of row 0
\* range over Words(n), since a hash is only used modulo n.
TabularFuncs(n) ==
  {[r \in 0..3 |->
      [j \in ByteVals |-> IF r = 0 /\ j /= 0 THEN f[j] ELSE 0]] :
     f \in [ByteVals \ {0} -> Words(n)]}

RECURSIVE Pow256(_)
Pow256(i) == IF i = 0 THEN 1 ELSE 256 * Pow256(i - 1)

\* (key >> i * 8) & 0xFF
ByteOf(k, i) == (k \div Pow256(i)) % 256

\* tabular_hash_func::hash: XOR of the four table words of the key's bytes.
TabularHash(t, k) ==
  Xor(Xor(Xor(Xor(0, t[0][ByteOf(k, 0)]), t[1][ByteOf(k, 1)]),
          t[2][ByteOf(k, 2)]), t[3][ByteOf(k, 3)])

\* ------------------------------------------------------------------ entries
\* entry<T>: a (key, value) pair; NULL is the null entry pointer.
NULL == <<>>
Entry(k, v) == <<k, v>>
KeyOf(e) == e[1]
ValueOf(e) == e[2]

\* -------------------------------------------------------------------- state
VARIABLES
  structure,      \* benchmark.cpp: which dictionary main constructed
  capacity,       \* the capacity handed to the constructor
  entries_,       \* naive_dict::entries_
  chainEntries,   \* chain_dict::entries (one sequence per bucket)
  chainHash,      \* chain_dict::hashFunction
  lpEntries,      \* lp_dict::entries (entry pointers, NULL when empty)
  lpHash,         \* lp_dict::hashFunction
  tables,         \* cuckoo_dict::tables
  hashFunctions,  \* cuckoo_dict::hashFunctions
  pc,             \* "idle": no call runs; "returned": a call has just ended;
                  \* "rehash": cuckoo_dict::set is entering rehash;
                  \* "looping": the call is in a loop it never leaves
  key, val,       \* at "rehash": the entry handed to rehash
  stack,          \* the rehash calls in progress: previousKeys and loop index
  call,           \* the caller's call: op, key, val, whether the key was stored
  outcome,        \* how the call ended
  before,         \* what search answered for each key when the call began
  everSet,        \* the keys handed to set so far
  resets,         \* calls of set so far on a key handed to set before
  written,        \* for each key the value last handed to set (0: none)
  steps           \* probe advances (lp_dict) or evictions (cuckoo_dict) of
                  \* the longest loop run by the last step of the call

vars == <<structure, capacity, entries_, chainEntries, chainHash, lpEntries,
          lpHash, tables, hashFunctions, pc, key, val, stack, call, outcome,
          before, everSet, resets, written, steps>>

store == <<entries_, chainEntries, chainHash, lpEntries, lpHash, tables,
           hashFunctions>>
naiveVars == <<entries_>>
chainVars == <<chainEntries, chainHash>>
lpVars == <<lpEntries, lpHash>>
cuckooVars == <<tables, hashFunctions>>

\* ------------------------------------------------------------- call results
Found(v) == [kind |-> "value", value |-> v]
OutOfRange == [kind |-> "out_of_range", value |-> 0]
LengthError == [kind |-> "length_error", value |-> 0]
Returned == [kind |-> "returned", value |-> 0]
Running == [kind |-> "running", value |-> 0]
Diverges == [kind |-> "diverges", value |-> 0]
NoOutcome == [kind |-> "none", value |-> 0]

\* ---------------------------------------------------------------- naive_dict
\* naive_dict::search_iterator: index of the first entry with the key, or
\* Len + 1 for end().
search_iterator(k) ==
  LET hits == {j \in 1..Len(entries_) : KeyOf(entries_[j]) = k}
  IN  IF hits = {} THEN Len(entries_) + 1
      ELSE CHOOSE j \in hits : \A h \in hits : j <= h

\* The result of naive_dict::search.
NaiveSearchResult(k) ==
  LET iter == search_iterator(k)
  IN  IF iter /= Len(entries_) + 1 THEN Found(ValueOf(entries_[iter]))
      ELSE OutOfRange

\* naive_dict::set without its push_back: a key not found is not added.
NaiveSetEntriesFoundOnly(k, v) ==
  LET iter == search_iterator(k)
  IN  IF iter /= Len(entries_) + 1
      THEN [entries_ EXCEPT ![iter] = Entry(k, v)]
      ELSE entries_

\* The entries after naive_dict::set.
NaiveSetEntries(k, v) ==
  LET iter == search_iterator(k)
  IN  IF iter /= Len(entries_) + 1
      THEN [entries_ EXCEPT ![iter] = Entry(k, v)]
      ELSE Append(entries_, Entry(k, v))

\* naive_dict::set with the capacity enforced: a new key beyond it throws.
NaiveSetOutcomeBounded(k, v) ==
  IF search_iterator(k) = Len(entries_) + 1 /\ Len(entries_) >= capacity
  THEN LengthError ELSE Returned

\* How naive_dict::set ends: it has no throw statement.
NaiveSetOutcome(k, v) == Returned

\* ---------------------------------------------------------------- chain_dict
\* hashFunction.hash(key) % capacity_
ChainIndex(k) == Mod32(Poly2Hash(chainHash, k), capacity)

\* Position of the first entry of a bucket with the key, or 0.
ChainFirst(bucket, k) ==
  LET hits == {j \in 1..Len(bucket) : KeyOf(bucket[j]) = k}
  IN  IF hits = {} THEN 0 ELSE CHOOSE j \in hits : \A h \in hits : j <= h

\* chain_dict::search without the comparison of keys: the first entry of
\* the bucket is taken for the key's.
ChainSearchResultFirstEntry(k) ==
  LET bucket == chainEntries[ChainIndex(k)]
  IN  IF bucket /= <<>> THEN Found(ValueOf(bucket[1])) ELSE OutOfRange

\* The result of chain_dict::search.
ChainSearchResult(k) ==
  LET bucket == chainEntries[ChainIndex(k)]
      j == ChainFirst(bucket, k)
  IN  IF j /= 0 THEN Found(ValueOf(bucket[j])) ELSE OutOfRange

\* chain_dict::set without the hash: emplace_back on the first bucket.
ChainSetEntriesFirstBucket(k, v) ==
  [chainEntries EXCEPT ![0] = Append(@, Entry(k, v))]

\* The buckets after chain_dict::set: emplace_back on the key's bucket.
ChainSetEntries(k, v) ==
  [chainEntries EXCEPT ![ChainIndex(k)] = Append(@, Entry(k, v))]

\* How chain_dict::set ends: it has no throw statement.
ChainSetOutcome(k, v) == Returned

\* ------------------------------------------------------------------- lp_dict
\* lp_dict::capacity_ = 2 * capacity
LpCapacity == 2 * capacity

\* hashFunction.hash(key) % capacity_
LpHome(k) == Mod32(Poly5Hash(lpHash, k), LpCapacity)

\* The condition of the probe loops of lp_dict::search and lp_dict::set.
LpWhile(ix, k) == lpEntries[ix] /= NULL /\ KeyOf(lpEntries[ix]) /= k

\* The probe step with a stride of two: index = (index + 2) % capacity_.
LpAdvanceByTwo(ix) == (ix + 2) % (2 * capacity)

\* index = (index + 1) % capacity_
LpAdvance(ix) == (ix + 1) % LpCapacity

RECURSIVE LpProbeToNull(_, _, _)
\* The probe loop with the test for NULL only: it passes over the key.
LpProbeToNull(ix, k, n) ==
  IF lpEntries[ix] = NULL THEN <<ix, n>>
  ELSE IF n = 2 * capacity THEN <<-1, n>>
  ELSE LpProbeToNull((ix + 1) % (2 * capacity), k, n + 1)

RECURSIVE LpProbe(_, _, _)
\* The probe loop for k, at index ix after n advances: <<index, advances>>
\* where it stops.  After capacity_ advances the loop is back at its home
\* slot with nothing changed, and so never stops: <<-1, n>>.
LpProbe(ix, k, n) ==
  IF ~LpWhile(ix, k) THEN <<ix, n>>
  ELSE IF n = LpCapacity THEN <<-1, n>>
  ELSE LpProbe(LpAdvance(ix), k, n + 1)

\* What lp_dict::search does at the slot its loop left.
LpSearchAt(ix, k) ==
  IF lpEntries[ix] /= NULL /\ KeyOf(lpEntries[ix]) = k
  THEN Found(ValueOf(lpEntries[ix]))
  ELSE OutOfRange

\* The result of lp_dict::search.
LpSearchResult(k) ==
  LET p == LpProbe(LpHome(k), k, 0)
  IN  IF p[1] = -1 THEN Diverges ELSE LpSearchAt(p[1], k)

\* lp_dict::set storing at the key's home slot, whatever the loop found.
LpSetEntriesAtHome(ix, k, v) == [lpEntries EXCEPT ![LpHome(k)] = Entry(k, v)]

\* The slots after the store of lp_dict::set at index ix.
LpSetEntries(ix, k, v) == [lpEntries EXCEPT ![ix] = Entry(k, v)]

\* How lp_dict::set ends once its loop stopped: it has no throw statement.
LpSetOutcome(ix, k, v) == Returned

\* --------------------------------------------------------------- cuckoo_dict
\* The index taken with the other table's function:
\* hashFunctions[1 - t].hash(key) % capacity_.
CuckooIndexOtherTable(hf, t, k) == TabularHash(hf[1 - t], k) % capacity

\* hashFunctions[t].hash(key) % capacity_, under the hash functions hf.
CuckooIndex(hf, t, k) == TabularHash(hf[t], k) % capacity

\* cuckoo_dict::search without the comparison of keys: whatever entry is in
\* the slot is taken for the key's.
CuckooSearchResultAnyKey(k) ==
  LET e0 == tables[0][CuckooIndex(hashFunctions, 0, k)]
      e1 == tables[1][CuckooIndex(hashFunctions, 1, k)]
  IN  IF e0 /= NULL THEN Found(ValueOf(e0))
      ELSE IF e1 /= NULL THEN Found(ValueOf(e1))
      ELSE OutOfRange

\* The result of cuckoo_dict::search: table 0's slot, then table 1's.
CuckooSearchResult(k) ==
  LET e0 == tables[0][CuckooIndex(hashFunctions, 0, k)]
      e1 == tables[1][CuckooIndex(hashFunctions, 1, k)]
  IN  IF e0 /= NULL /\ KeyOf(e0) = k THEN Found(ValueOf(e0))
      ELSE IF e1 /= NULL /\ KeyOf(e1) = k THEN Found(ValueOf(e1))
      ELSE OutOfRange

\* cuckoo_dict::set without its loop detection: the loop ends only by break.
LoopDetectedNever(k, t, orig) == FALSE

\* The loop detection of cuckoo_dict::set: key == temp && i == 1.
LoopDetected(k, t, orig) == k = orig /\ t = 1

RECURSIVE EvictLoop(_, _, _, _, _, _, _, _)
\* The loop of cuckoo_dict::set from its head, with entry (k, v) in hand at
\* table t, orig the key set was called with and n evictions made.  It ends
\* "placed" (break), "rehash" (loop detection), or "diverges": the loop is
\* deterministic, so a head state met again (seen) is met for ever.
EvictLoop(hf, tabs, k, v, t, orig, seen, n) ==
  LET ix == CuckooIndex(hf, t, k)
      old == tabs[t][ix]
      put == [tabs EXCEPT ![t][ix] = Entry(k, v)]
  IN  IF old = NULL
      THEN [kind |-> "placed", tables |-> put, key |-> k, val |-> v,
            evictions |-> n]
      ELSE IF LoopDetected(KeyOf(old), t, orig)
      THEN [kind |-> "rehash", tables |-> put, key |-> KeyOf(old),
            val |-> ValueOf(old), evictions |-> n + 1]
      ELSE LET head == [tables |-> put, key |-> KeyOf(old), val |-> ValueOf(old),
                        i |-> 1 - t]
           IN  IF \E j \in 1..Len(seen) : seen[j] = head
               THEN [kind |-> "diverges", tables |-> put, key |-> KeyOf(old),
                     val |-> ValueOf(old), evictions |-> n + 1]
               ELSE EvictLoop(hf, put, KeyOf(old), ValueOf(old), 1 - t, orig,
                              Append(seen, head), n + 1)

\* cuckoo_dict::set(k, v) up to the end of its loop: i = 0, temp = key.
SetLoop(hf, tabs, k, v) ==
  EvictLoop(hf, tabs, k, v, 0, k,
            <<[tables |-> tabs, key |-> k, val |-> v, i |-> 0]>>, 0)

RECURSIVE Collect(_, _)
\* The non-NULL entries of one table, slots 0..j-1, in slot order.
Collect(tab, j) ==
  IF j = 0 THEN <<>>
  ELSE IF tab[j - 1] /= NULL THEN Append(Collect(tab, j - 1), tab[j - 1])
  ELSE Collect(tab, j - 1)

\* previousKeys without the entry handed to rehash: only the tables' entries.
PreviousKeysTablesOnly(k, v) ==
  Collect(tables[0], capacity) \o Collect(tables[1], capacity)

\* cuckoo_dict::rehash's previousKeys: table 0's entries, table 1's, then
\* the entry handed to rehash.
PreviousKeys(k, v) ==
  Append(Collect(tables[0], capacity) \o Collect(tables[1], capacity),
         Entry(k, v))

EmptyTables == [t \in 0..1 |-> [s \in 0..(capacity - 1) |-> NULL]]

RECURSIVE Emptied(_, _)
\* One table after cuckoo_dict::rehash set its slots 0..j-1 to NULL.
Emptied(tab, j) ==
  IF j = 0 THEN tab ELSE [Emptied(tab, j - 1) EXCEPT ![j - 1] = NULL]

Max(a, b) == IF a >= b THEN a ELSE b

RECURSIVE Reinsert(_, _, _, _, _)
\* The last loop of cuckoo_dict::rehash from index j on: set is called on
\* previousKeys[j], [j+1], ... until one of the calls does not leave its loop
\* by break (i is then that call's index) or all are done; m is the most
\* evictions of one call so far.
Reinsert(hf, tabs, prev, j, m) ==
  IF j > Len(prev)
  THEN [kind |-> "done", tables |-> tabs, key |-> 0, val |-> 0, i |-> j,
        evictions |-> m]
  ELSE LET r == SetLoop(hf, tabs, KeyOf(prev[j]), ValueOf(prev[j]))
       IN  IF r.kind = "placed"
           THEN Reinsert(hf, r.tables, prev, j + 1, Max(m, r.evictions))
           ELSE [kind |-> r.kind, tables |-> r.tables, key |-> r.key,
                 val |-> r.val, i |-> j, evictions |-> Max(m, r.evictions)]

RECURSIVE Continue(_, _, _, _)
\* The rehash calls of stk go on, innermost first: each runs the rest of its
\* loop and returns to the set that called it, which returns to the rehash
\* below.  Ends "returned" (the caller's set returns), or with a set that
\* enters rehash or diverges.
Continue(hf, tabs, stk, m) ==
  IF stk = <<>>
  THEN [kind |-> "returned", tables |-> tabs, key |-> 0, val |-> 0,
        stack |-> stk, evictions |-> m]
  ELSE LET f == stk[Len(stk)]
           r == Reinsert(hf, tabs, f.previousKeys, f.i + 1, m)
       IN  IF r.kind = "done"
           THEN Continue(hf, r.tables, SubSeq(stk, 1, Len(stk) - 1), r.evictions)
           ELSE [kind |-> r.kind, tables |-> r.tables, key |-> r.key,
                 val |-> r.val, stack |-> [stk EXCEPT ![Len(stk)].i = r.i],
                 evictions |-> r.evictions]

\* ------------------------------------------------------------ pure search
\* Whether some entry of the constructed dictionary has key k.
Stored(k) ==
  CASE structure = "naive" -> \E j \in 1..Len(entries_) : KeyOf(entries_[j]) = k
    [] structure = "chain" ->
         \E b \in 0..(capacity - 1) :
           \E j \in 1..Len(chainEntries[b]) : KeyOf(chainEntries[b][j]) = k
    [] structure = "lp" ->
         \E s \in 0..(LpCapacity - 1) :
           lpEntries[s] /= NULL /\ KeyOf(lpEntries[s]) = k
    [] structure = "cuckoo" ->
         \E t \in 0..1 : \E s \in 0..(capacity - 1) :
           tables[t][s] /= NULL /\ KeyOf(tables[t][s]) = k

\* What search(k) answers in the current state.
SearchResult(k) ==
  CASE structure = "naive" -> NaiveSearchResult(k)
    [] structure = "chain" -> ChainSearchResult(k)
    [] structure = "lp" -> LpSearchResult(k)
    [] structure = "cuckoo" -> CuckooSearchResult(k)

Snapshot == [k \in Keys |-> SearchResult(k)]
NoSnapshot == [k \in Keys |-> OutOfRange]

RECURSIVE Count(_, _)
\* How many of the entries of the sequence s are e.
Count(s, e) ==
  IF s = <<>> THEN 0
  ELSE (IF s[1] = e THEN 1 ELSE 0) + Count(SubSeq(s, 2, Len(s)), e)

\* The entries of the sequence s with how often each occurs.
Tally(s) == [e \in {s[j] : j \in 1..Len(s)} |-> Count(s, e)]

\* The entries cuckoo_dict holds in its two tables, with how often each
\* occurs (nothing for the other structures).
Held ==
  IF structure = "cuckoo"
  THEN Tally(Collect(tables[0], capacity) \o Collect(tables[1], capacity))
  ELSE Tally(<<>>)

\* The call in progress: its arguments, whether its key had an entry and what
\* the tables held when it began, and its calls of rehash so far.
NoCall ==
  [op |-> "none", key |-> 0, val |-> 0, stored |-> FALSE, held |-> Tally(<<>>),
   rehashes |-> 0]
SearchCall(k) ==
  [op |-> "search", key |-> k, val |-> 0, stored |-> Stored(k), held |-> Held,
   rehashes |-> 0]
SetCall(k, v) ==
  [op |-> "set", key |-> k, val |-> v, stored |-> Stored(k), held |-> Held,
   rehashes |-> 0]

\* --------------------------------------------------------------------- Init
\* main: srand, then one dictionary constructed with capacity n.
Init ==
  /\ structure \in Structures
  /\ capacity \in 1..MaxN
  /\ entries_ = <<>>
  /\ chainEntries = IF structure = "chain"
                    THEN [b \in 0..(capacity - 1) |-> <<>>] ELSE <<>>
  /\ chainHash \in IF structure = "chain" THEN Poly2Funcs
                   ELSE {[a0 |-> 0, a1 |-> 0]}
  /\ lpEntries = IF structure = "lp"
                 THEN [s \in 0..(2 * capacity - 1) |-> NULL] ELSE <<>>
  /\ lpHash \in IF structure = "lp" THEN Poly5Funcs ELSE {[j \in 0..4 |-> 0]}
  /\ tables = IF structure = "cuckoo" THEN EmptyTables ELSE <<>>
  /\ hashFunctions \in IF structure = "cuckoo" THEN [0..1 -> TabularFuncs(capacity)]
                       ELSE {<<>>}
  /\ pc = "idle"
  /\ key = 0 /\ val = 0
  /\ stack = <<>>
  /\ call = NoCall
  /\ outcome = NoOutcome
  /\ before = NoSnapshot
  /\ everSet = {}
  /\ resets = 0
  /\ written = [k \in Keys |-> 0]
  /\ steps = 0

\* ------------------------------------------------------------------ actions
\* The caller takes the result of the call that has just ended.
Resume ==
  /\ pc = "returned"
  /\ pc' = "idle"
  /\ call' = NoCall
  /\ outcome' = NoOutcome
  /\ before' = NoSnapshot
  /\ steps' = 0
  /\ UNCHANGED <<structure, capacity, store, key, val, stack, everSet, resets,
                 written>>

\* The caller calls search(k).
CallSearch(k) ==
  /\ pc = "idle"
  /\ call' = SearchCall(k)
  /\ before' = Snapshot
  /\ UNCHANGED <<everSet, resets, written>>

\* The caller calls set(k, v).
CallSet(k, v) ==
  /\ pc = "idle"
  /\ k \notin everSet \/ resets < MaxResets
  /\ call' = SetCall(k, v)
  /\ before' = Snapshot
  /\ everSet' = everSet \cup {k}
  /\ resets' = IF k \in everSet THEN resets + 1 ELSE resets
  /\ written' = [written EXCEPT ![k] = v]

\* naive_dict::search
NaiveSearch(k) ==
  /\ structure = "naive"
  /\ CallSearch(k)
  /\ outcome' = NaiveSearchResult(k)
  /\ pc' = "returned"
  /\ UNCHANGED <<structure, capacity, store, key, val, stack, steps>>

\* naive_dict::set
NaiveSet(k, v) ==
  /\ structure = "naive"
  /\ CallSet(k, v)
  /\ outcome' = NaiveSetOutcome(k, v)
  /\ entries_' = IF NaiveSetOutcome(k, v) = Returned THEN NaiveSetEntries(k, v)
                 ELSE entries_
  /\ pc' = "returned"
  /\ UNCHANGED <<structure, capacity, chainVars, lpVars, cuckooVars, key, val,
                 stack, steps>>

\* chain_dict::search that moves the entry it finds to the front of its
\* bucket.
ChainSearchMoveToFront(k) ==
  /\ structure = "chain"
  /\ CallSearch(k)
  /\ outcome' = ChainSearchResult(k)
  /\ pc' = "returned"
  /\ LET b == ChainIndex(k)
         j == ChainFirst(chainEntries[b], k)
     IN  chainEntries' =
           IF j = 0 THEN chainEntries
           ELSE [chainEntries EXCEPT ![b] =
                   <<@[j]>> \o SubSeq(@, 1, j - 1) \o SubSeq(@, j + 1, Len(@))]
  /\ UNCHANGED <<structure, capacity, naiveVars, chainHash, lpVars, cuckooVars,
                 key, val, stack, steps>>

\* chain_dict::search
ChainSearch(k) ==
  /\ structure = "chain"
  /\ CallSearch(k)
  /\ outcome' = ChainSearchResult(k)
  /\ pc' = "returned"
  /\ UNCHANGED <<structure, capacity, store, key, val, stack, steps>>

\* chain_dict::set
ChainSet(k, v) ==
  /\ structure = "chain"
  /\ CallSet(k, v)
  /\ outcome' = ChainSetOutcome(k, v)
  /\ chainEntries' = IF ChainSetOutcome(k, v) = Returned
                     THEN ChainSetEntries(k, v) ELSE chainEntries
  /\ pc' = "returned"
  /\ UNCHANGED <<structure, capacity, naiveVars, chainHash, lpVars, cuckooVars,
                 key, val, stack, steps>>

\* lp_dict::search
LpSearch(k) ==
  /\ structure = "lp"
  /\ CallSearch(k)
  /\ LET p == LpProbe(LpHome(k), k, 0)
     IN  /\ steps' = p[2]
         /\ IF p[1] = -1
            THEN pc' = "looping" /\ outcome' = Running
            ELSE pc' = "returned" /\ outcome' = LpSearchAt(p[1], k)
  /\ UNCHANGED <<structure, capacity, store, key, val, stack>>

\* lp_dict::set
LpSet(k, v) ==
  /\ structure = "lp"
  /\ CallSet(k, v)
  /\ LET p == LpProbe(LpHome(k), k, 0)
     IN  /\ steps' = p[2]
         /\ IF p[1] = -1
            THEN pc' = "looping" /\ outcome' = Running /\ lpEntries' = lpEntries
            ELSE /\ pc' = "returned"
                 /\ outcome' = LpSetOutcome(p[1], k, v)
                 /\ lpEntries' = IF LpSetOutcome(p[1], k, v) = Returned
                                 THEN LpSetEntries(p[1], k, v) ELSE lpEntries
  /\ UNCHANGED <<structure, capacity, naiveVars, chainVars, lpHash, cuckooVars,
                 key, val, stack>>

\* cuckoo_dict::search
CuckooSearch(k) ==
  /\ structure = "cuckoo"
  /\ CallSearch(k)
  /\ outcome' = CuckooSearchResult(k)
  /\ pc' = "returned"
  /\ UNCHANGED <<structure, capacity, store, key, val, stack, steps>>

\* Where a step of cuckoo_dict::set leaves the call: c is the end of the
\* loops it ran.
CuckooEnds(c) ==
  /\ tables' = c.tables
  /\ stack' = c.stack
  /\ key' = c.key
  /\ val' = c.val
  /\ steps' = c.evictions
  /\ pc' = IF c.kind = "returned" THEN "returned"
           ELSE IF c.kind = "rehash" THEN "rehash" ELSE "looping"
  /\ outcome' = IF c.kind = "returned" THEN Returned ELSE Running

\* cuckoo_dict::set, to its return or to its call of rehash.
CuckooSet(k, v) ==
  /\ structure = "cuckoo"
  /\ CallSet(k, v)
  /\ LET r == SetLoop(hashFunctions, tables, k, v)
     IN  CuckooEnds([kind |-> IF r.kind = "placed" THEN "returned" ELSE r.kind,
                     tables |-> r.tables,
                     key |-> IF r.kind = "placed" THEN 0 ELSE r.key,
                     val |-> IF r.kind = "placed" THEN 0 ELSE r.val,
                     stack |-> <<>>, evictions |-> r.evictions])
  /\ UNCHANGED <<structure, capacity, naiveVars, chainVars, lpVars,
                 hashFunctions>>

\* cuckoo_dict::rehash(tables, key, val): new hash functions, the tables
\* emptied into previousKeys, then set on each of them; and the returns that
\* follow, up to the caller's set or to the next call of rehash.
CuckooRehash ==
  /\ pc = "rehash"
  /\ Len(stack) < MaxDepth
  /\ \E hf \in [0..1 -> TabularFuncs(capacity)] :
       /\ hashFunctions' = hf
       /\ CuckooEnds(Continue(hf,
                              [tables EXCEPT ![0] = Emptied(@, capacity),
                                             ![1] = Emptied(@, capacity)],
                              Append(stack,
                                     [previousKeys |-> PreviousKeys(key, val),
                                      i |-> 0]), 0))
  /\ call' = [call EXCEPT !.rehashes = @ + 1]
  /\ UNCHANGED <<structure, capacity, naiveVars, chainVars, lpVars, before,
                 everSet, resets, written>>

\* --------------------------------------------------------------------- Next
Next ==
  \/ Resume
  \/ \E k \in Keys : NaiveSearch(k)
  \/ \E k \in Keys : \E v \in Vals : NaiveSet(k, v)
  \/ \E k \in Keys : ChainSearch(k)
  \/ \E k \in Keys : \E v \in Vals : ChainSet(k, v)
  \/ \E k \in Keys : LpSearch(k)
  \/ \E k \in Keys : \E v \in Vals : LpSet(k, v)
  \/ \E k \in Keys : CuckooSearch(k)
  \/ \E k \in Keys : \E v \in Vals : CuckooSet(k, v)
  \/ CuckooRehash

Spec == Init /\ [][Next]_vars

\* ------------------------------------------------------------------- claims
\* A call of op has just ended (its result is still with the caller).
Ended(op) == pc = "returned" /\ call.op = op

\* Number of entries with key k in bucket b of chain_dict.
ChainCount(b, k) ==
  Cardinality({j \in 1..Len(chainEntries[b]) : KeyOf(chainEntries[b][j]) = k})

\* Every slot of lp_dict holds an entry.
LpFull == \A s \in 0..(LpCapacity - 1) : lpEntries[s] /= NULL

\* The keys cuckoo_dict holds: in its tables, in hand at rehash, and in the
\* previousKeys of the rehash calls in progress.
CuckooKeys ==
  {k \in Keys :
     \/ \E t \in 0..1 : \E s \in 0..(capacity - 1) :
          tables[t][s] /= NULL /\ KeyOf(tables[t][s]) = k
     \/ pc = "rehash" /\ key = k
     \/ \E d \in 1..Len(stack) : \E j \in 1..Len(stack[d].previousKeys) :
          KeyOf(stack[d].previousKeys[j]) = k}

\* C1: in every variant, search(k) for a key never handed to set ends with
\* std::out_of_range, on the empty dictionary and after sets of other keys.
C1_SearchOfUnsetKeyThrows ==
  (Ended("search") /\ call.key \notin everSet) => outcome = OutOfRange

\* C1 witness: cuckoo_dict holds other keys, one of them in the slot of
\* table 0 that the search of an unset key inspects.
C1_Witness ==
  /\ Ended("search") /\ structure = "cuckoo"
  /\ call.key \notin everSet /\ everSet /= {}
  /\ tables[0][CuckooIndex(hashFunctions, 0, call.key)] /= NULL
  /\ outcome = OutOfRange

\* C2: in every variant, when set(k, v) returns for a key k that was not
\* stored, search(k) returns v.
C2_SetThenSearch ==
  (Ended("set") /\ outcome = Returned /\ ~call.stored)
    => SearchResult(call.key) = Found(call.val)

\* C2 witness: lp_dict has placed a new key away from its home slot.
C2_Witness ==
  /\ Ended("set") /\ outcome = Returned /\ ~call.stored
  /\ structure = "lp" /\ steps > 0
  /\ SearchResult(call.key) = Found(call.val)

\* C3: in chain_dict, set(k, v2) on a key that has an entry replaces its
\* value: search(k) returns v2 and the bucket holds one entry with key k.
C3_ChainSetReplaces ==
  (Ended("set") /\ structure = "chain" /\ call.stored)
    => /\ ChainSearchResult(call.key) = Found(call.val)
       /\ ChainCount(ChainIndex(call.key), call.key) = 1

\* C4: in cuckoo_dict, when set(k, v2) returns for a key that was stored,
\* search(k) returns v2.
C4_CuckooSetReplaces ==
  (Ended("set") /\ structure = "cuckoo" /\ call.stored)
    => CuckooSearchResult(call.key) = Found(call.val)

\* C5: in every variant, a set(k1, v) that returns leaves search(k2) as it
\* was for every stored key k2 other than k1.
C5_NonInterference ==
  (Ended("set") /\ outcome = Returned)
    => \A k2 \in Keys \ {call.key} :
         before[k2].kind = "value" => SearchResult(k2) = before[k2]

\* C6: in lp_dict, set of an absent key on a table with every slot taken
\* has ended with std::length_error: it is never in its probe loop for ever.
C6_LpFullSetThrows ==
  (structure = "lp" /\ call.op = "set" /\ LpFull /\ ~Stored(call.key))
    => (pc = "returned" /\ outcome = LengthError)

\* C7: in cuckoo_dict, a set that leaves the dictionary with more distinct
\* keys than its 2 * capacity slots has ended with std::length_error: it is
\* never in rehash and never returns normally.
C7_CuckooFullSetThrows ==
  (structure = "cuckoo" /\ call.op = "set"
     /\ Cardinality(CuckooKeys) > 2 * capacity)
    => (pc = "returned" /\ outcome = LengthError)

\* C8: set on naive_dict and chain_dict always returns, never with
\* std::length_error, also with more keys than the capacity.
C8_UnboundedSetReturns ==
  (structure \in {"naive", "chain"} /\ call.op = "set")
    => pc = "returned" /\ outcome = Returned

\* C8 witness: naive_dict has returned from a set that left it with more
\* entries than its capacity.
C8_Witness ==
  /\ Ended("set") /\ structure = "naive"
  /\ Len(entries_) > capacity
  /\ outcome = Returned

\* C9: a step of search, whether it returns a value or throws, leaves the
\* backing store and the hash functions of every variant unchanged.
C9_SearchKeepsStore ==
  [][(pc = "idle" /\ call'.op = "search") => UNCHANGED store]_vars

\* C9 witness: cuckoo_dict's search has found a key in table 1.
C9_Witness ==
  /\ Ended("search") /\ structure = "cuckoo"
  /\ outcome.kind = "value"
  /\ tables[0][CuckooIndex(hashFunctions, 0, call.key)] /= NULL
  /\ KeyOf(tables[0][CuckooIndex(hashFunctions, 0, call.key)]) /= call.key

\* C10: with the hash functions fixed, the loop of cuckoo_dict::set never
\* runs for ever: it places the entry in hand or reaches the loop detection,
\* within 6 * capacity evictions.
C10_EvictionLoopEnds ==
  structure = "cuckoo" => (pc /= "looping" /\ steps <= 6 * capacity)

\* C10 witness: a set has reached the loop detection after more than two
\* evictions.
C10_Witness ==
  /\ structure = "cuckoo" /\ pc = "rehash" /\ steps > 2

\* The tally b with one more occurrence of the entry e.
WithEntry(b, e) ==
  [x \in DOMAIN b \cup {e} |->
     (IF x \in DOMAIN b THEN b[x] ELSE 0) + (IF x = e THEN 1 ELSE 0)]

\* C11: when cuckoo_dict::set(k, v) returns for a key that was not stored,
\* the two tables hold the entries they held when the call began and (k, v)
\* once more, each as often as before, and search finds every key held.
C11_CuckooSetKeepsEntries ==
  (Ended("set") /\ structure = "cuckoo" /\ ~call.stored /\ outcome = Returned)
    => /\ Held = WithEntry(call.held, Entry(call.key, call.val))
       /\ \A e \in DOMAIN Held : CuckooSearchResult(KeyOf(e)).kind = "value"

\* C11 witness: a set of a new key has returned through a rehash called
\* from within rehash, with earlier entries in the tables.
C11_Witness ==
  /\ Ended("set") /\ structure = "cuckoo" /\ ~call.stored
  /\ outcome = Returned
  /\ call.rehashes >= 2
  /\ DOMAIN call.held /= {}

\* No call is in progress: the caller has not called, or the call has ended.
Quiet == pc \in {"idle", "returned"}

\* The slots <<t, s>> of the two tables of cuckoo_dict that hold key k.
CuckooSlotsOf(k) ==
  {sl \in (0..1) \X (0..(capacity - 1)) :
     tables[sl[1]][sl[2]] /= NULL /\ KeyOf(tables[sl[1]][sl[2]]) = k}

\* C12: outside a set in progress, after any sets (sets on stored keys
\* included), each key has at most one slot in the two tables of cuckoo_dict.
C12_CuckooKeyUnique ==
  (structure = "cuckoo" /\ Quiet)
    => \A k \in Keys : Cardinality(CuckooSlotsOf(k)) <= 1

\* C13: outside a set in progress, every entry of tables[i][j] of cuckoo_dict
\* has hashFunctions[i].hash(key) % capacity_ = j under the current hash
\* functions, so search finds every key that has an entry.
C13_CuckooPlacement ==
  (structure = "cuckoo" /\ Quiet)
    => /\ \A i \in 0..1 : \A j \in 0..(capacity - 1) :
            tables[i][j] /= NULL
              => TabularHash(hashFunctions[i], KeyOf(tables[i][j])) % capacity = j
       /\ \A k \in Keys : Stored(k) => CuckooSearchResult(k).kind = "value"

\* C13 witness: a set has returned through two calls of rehash, each with
\* new hash functions, and both tables hold entries.
C13_Witness ==
  /\ Ended("set") /\ structure = "cuckoo" /\ outcome = Returned
  /\ call.rehashes >= 2
  /\ \E j \in 0..(capacity - 1) : tables[0][j] /= NULL
  /\ \E j \in 0..(capacity - 1) : tables[1][j] /= NULL

\* C14: after any sets on chain_dict, every entry of bucket b has
\* hashFunction.hash(key) % capacity_ = b.
C14_ChainBucket ==
  structure = "chain"
    => \A b \in 0..(capacity - 1) : \A j \in 1..Len(chainEntries[b]) :
         ChainIndex(KeyOf(chainEntries[b][j])) = b

\* C14 witness: chain_dict holds entries in two buckets, one of them with two
\* keys.
C14_Witness ==
  /\ structure = "chain" /\ capacity = 2
  /\ chainEntries[1] /= <<>>
  /\ \E j \in 1..Len(chainEntries[0]) :
       KeyOf(chainEntries[0][j]) /= KeyOf(chainEntries[0][1])

\* The slot where the probe loop of lp_dict stops for key k (-1: nowhere).
LpStop(k) == LpProbe(LpHome(k), k, 0)[1]

\* The slots lp_dict holds key k in.
LpSlotsOf(k) ==
  {s \in 0..(LpCapacity - 1) : lpEntries[s] /= NULL /\ KeyOf(lpEntries[s]) = k}

\* C15: a set step of lp_dict changes no slot but the one where its probe
\* loop stops, where it stores (k, v): a slot that held a key holds the same
\* key afterwards, and a set on a stored key writes the slot that held it.
C15_LpSetOneSlot ==
  [][(structure = "lp" /\ pc = "idle" /\ call'.op = "set")
       => /\ \A s \in 0..(LpCapacity - 1) :
               /\ s /= LpStop(call'.key) => lpEntries'[s] = lpEntries[s]
               /\ lpEntries[s] /= NULL
                    => /\ lpEntries'[s] /= NULL
                       /\ KeyOf(lpEntries'[s]) = KeyOf(lpEntries[s])
          /\ pc' = "returned"
               => lpEntries'[LpStop(call'.key)] = Entry(call'.key, call'.val)
          /\ call'.stored => LpSlotsOf(call'.key) = {LpStop(call'.key)}]_vars

\* C15 witness: a set on a stored key has returned after its probe loop
\* advanced past other keys.
C15_Witness ==
  /\ Ended("set") /\ structure = "lp" /\ call.stored
  /\ steps > 0
  /\ outcome = Returned

\* C16: a step of search or set of lp_dict whose table has an empty slot or
\* holds the key ends after at most 2 * capacity probe advances; the probe
\* loop runs for ever exactly when every slot is taken and the key is absent.
C16_LpProbeEnds ==
  [][(structure = "lp" /\ pc = "idle" /\ call'.op /= "none")
       => /\ (~LpFull \/ Stored(call'.key))
               => (pc' = "returned" /\ steps' <= 2 * capacity)
          /\ (LpFull /\ ~Stored(call'.key)) => pc' = "looping"]_vars

\* C16 witness: a search has ended after its probe loop advanced over two
\* taken slots.
C16_Witness ==
  /\ Ended("search") /\ structure = "lp"
  /\ steps >= 2

RECURSIVE LpPath(_, _)
\* The slots from h up to, not including, s on the cyclic probe path.
LpPath(h, s) == IF h = s THEN {} ELSE {h} \cup LpPath(LpAdvance(h), s)

\* C17: after any sets on lp_dict, every slot on the probe path from an
\* entry's home slot up to its slot is taken, by entries with other keys, so
\* search finds every key that has an entry.
C17_LpContiguity ==
  (structure = "lp" /\ Quiet)
    => \A s \in 0..(LpCapacity - 1) :
         lpEntries[s] /= NULL
           => /\ \A q \in LpPath(LpHome(KeyOf(lpEntries[s])), s) :
                   /\ lpEntries[q] /= NULL
                   /\ KeyOf(lpEntries[q]) /= KeyOf(lpEntries[s])
              /\ LpSearchResult(KeyOf(lpEntries[s])) = Found(ValueOf(lpEntries[s]))

\* C17 witness: an entry of lp_dict is two slots away from its home slot.
C17_Witness ==
  /\ structure = "lp" /\ Quiet
  /\ \E s \in 0..(LpCapacity - 1) :
       /\ lpEntries[s] /= NULL
       /\ Cardinality(LpPath(LpHome(KeyOf(lpEntries[s])), s)) >= 2

\* What the calls made so far fix as the answer of search(k), whatever the
\* hash functions: the value last handed to set for k, or out_of_range.
Expected(k) == IF written[k] = 0 THEN OutOfRange ELSE Found(written[k])

\* C18: with calls on distinct keys, as the driver makes them, every search
\* that returns gives the answer the calls alone fix, for every draw of the
\* hash coefficients; so two copies of a variant built with different
\* coefficients and given the same calls answer each such search alike.
C18_HashIndependence ==
  (Ended("search") /\ resets = 0) => outcome = Expected(call.key)

\* C18 witness: chain_dict has found a key behind another key of the same
\* bucket, with no key set twice.
C18_Witness ==
  /\ Ended("search") /\ resets = 0 /\ structure = "chain"
  /\ outcome.kind = "value"
  /\ KeyOf(chainEntries[ChainIndex(call.key)][1]) /= call.key

====
